---- MODULE Spec2Model ----
(***************************************************************************)
(* Model of package check (util/check/check.go): the command wrappers Run, *)
(* Output and CombinedOutput with parseEnv, the filesystem helpers         *)
(* FileExists, DirExists, ReadLines and CopyFile, and the error helpers    *)
(* Panic and NoError.                                                      *)
(*                                                                         *)
(* The package keeps no state of its own; the state modelled here is the   *)
(* state its functions act on (files, open handles, the process            *)
(* environment, the logger's entries) and the position of the one caller.  *)
(* Four specifications share the module, one per group of functions:       *)
(*   Spec           CopyFile, FileExists, DirExists on a small filesystem  *)
(*   SpecReadLines  ReadLines on one path                                  *)
(*   SpecExec       Run, Output, CombinedOutput and parseEnv               *)
(*   SpecErr        Panic and NoError called by one caller                 *)
(***************************************************************************)
EXTENDS Integers, Sequences, FiniteSets, TLC

VARIABLES
    \* ---- filesystem helpers (Spec) ----
    fs,        \* path -> node: [kind, data, r, w]
    fs0,       \* fs as it was when the current CopyFile call was made
    pc,        \* position of the CopyFile call
    args,      \* [dst, src] of the current CopyFile call
    open,      \* file handles opened by the current call and not yet closed
    deferred,  \* the call's stack of deferred Close()s, newest first
    err,       \* the error CopyFile returns
    ret,       \* result of the last FileExists / DirExists call
    \* ---- ReadLines (SpecReadLines) ----
    rlFile,    \* the node ReadLines is called on
    rlPc,      \* "start" | "done"
    rlRet,     \* [lines, err] returned by ReadLines
    \* ---- command wrappers (SpecExec) ----
    environ,   \* os.Environ(): sequence of "NAME=VALUE" strings
    exArgs,    \* [op, env, order, stdout, stderr] of the call
    cmd,       \* the *exec.Cmd fields the wrappers set, and what became of it
    exPc,      \* "start" | "done"
    exRet,     \* [out, err] returned by the wrapper
    \* ---- error helpers (SpecErr) ----
    log,       \* entries written to the logrus entry, oldest first
    erPc,      \* position of the caller
    erArgs,    \* [fn, err, msg] of the current call
    erRet,     \* what the helper returned ("none" for Panic)
    after      \* number of statements after a helper call the caller has run

fsVars == <<fs, fs0, pc, args, open, deferred, err, ret>>
rlVars == <<rlFile, rlPc, rlRet>>
exVars == <<environ, exArgs, cmd, exPc, exRet>>
erVars == <<log, erPc, erArgs, erRet, after>>
vars == <<fsVars, rlVars, exVars, erVars>>
notFS == <<rlVars, exVars, erVars>>
notRL == <<fsVars, exVars, erVars>>
notEx == <<fsVars, rlVars, erVars>>
notEr == <<fsVars, rlVars, exVars>>

\* ------------------------------------------------------------------ bounds
MaxLen == 2          \* longest file content in Spec
MaxLineLen == 5      \* longest file content in SpecReadLines
MaxValLen == 1       \* longest environment value in SpecExec
MaxLog == 2          \* most log entries in SpecErr

BoundedSeq(S, n) == UNION {[1..k -> S] : k \in 0..n}

Nil == "nil"

\* ====================================================================
\* Filesystem: CopyFile, FileExists, DirExists
\* ====================================================================
Paths == {"p1", "p2"}
Bytes == {"a", "b"}

\* A node is what a path names. kind "absent": nothing there; "regular": a
\* regular file; "dir": a directory; "device": any other kind of file (device,
\* FIFO, socket); "denied": a path under a directory that may not be searched,
\* so every system call on it fails with EACCES. r and w are the permissions
\* the process has on the node to read and write it; for an absent node w says
\* whether the parent directory permits creating it.
Absent(w) == [kind |-> "absent", data |-> <<>>, r |-> FALSE, w |-> w]
Regular(d, r, w) == [kind |-> "regular", data |-> d, r |-> r, w |-> w]
Dir == [kind |-> "dir", data |-> <<>>, r |-> TRUE, w |-> TRUE]
Device == [kind |-> "device", data |-> <<>>, r |-> TRUE, w |-> TRUE]
Denied == [kind |-> "denied", data |-> <<>>, r |-> FALSE, w |-> FALSE]

Nodes ==
    {Absent(w) : w \in BOOLEAN} \cup {Dir, Device, Denied}
    \cup {Regular(d, r, w) : d \in BoundedSeq(Bytes, MaxLen), r \in BOOLEAN, w \in BOOLEAN}

\* os.Stat(filename): the error, and info.IsDir() when there is none.
Stat(node) ==
    CASE node.kind = "absent" -> [err |-> "ENOENT", isDir |-> FALSE]
      [] node.kind = "denied" -> [err |-> "EACCES", isDir |-> FALSE]
      [] OTHER -> [err |-> Nil, isDir |-> (node.kind = "dir")]

\* A dropped negation: the test of DirExists.
FileExists_isDir(node) ==
    LET info == Stat(node) IN info.err = Nil /\ info.isDir

\* A dropped error test: info is the zero FileInfo when Stat fails.
FileExists_noErrTest(node) ==
    LET info == Stat(node) IN ~info.isDir

FileExists(node) ==
    LET info == Stat(node) IN info.err = Nil /\ ~info.isDir

DirExists(node) ==
    LET info == Stat(node) IN info.err = Nil /\ info.isDir

\* os.Open(src): open for reading. A directory opens; reading it fails later.
OpenRead(node) ==
    CASE node.kind = "absent" -> "ENOENT"
      [] node.kind = "denied" -> "EACCES"
      [] node.kind = "regular" /\ ~node.r -> "EACCES"
      [] OTHER -> Nil

\* The flags CopyFile passes to os.OpenFile for dst.
OpenFlags == {"O_CREATE", "O_WRONLY"}

\* os.OpenFile(dst, flags, 0644): the error, and the node afterwards.
OpenWrite(node, flags) ==
    CASE node.kind = "absent" ->
            IF "O_CREATE" \in flags /\ node.w
            THEN [err |-> Nil, node |-> Regular(<<>>, TRUE, TRUE)]
            ELSE [err |-> IF "O_CREATE" \in flags THEN "EACCES" ELSE "ENOENT", node |-> node]
      [] node.kind = "denied" -> [err |-> "EACCES", node |-> node]
      [] node.kind = "dir" -> [err |-> "EISDIR", node |-> node]
      [] node.kind = "regular" /\ ~node.w -> [err |-> "EACCES", node |-> node]
      [] node.kind = "regular" /\ "O_TRUNC" \in flags ->
            [err |-> Nil, node |-> [node EXCEPT !.data = <<>>]]
      [] OTHER -> [err |-> Nil, node |-> node]

\* Writing bytes from offset 0 of an open file: the bytes replace the
\* file's first Len(bytes) bytes, and whatever lay beyond them stays.
WriteAt(old, bytes) == bytes \o SubSeq(old, Len(bytes) + 1, Len(old))

Handle(p, m) == [path |-> p, mode |-> m]

\* A forgotten defer.
DeferClose_forgotten(stack, h) == stack

\* defer h.Close()
DeferClose(stack, h) == <<h>> \o stack

RECURSIVE HandlesOf(_)
HandlesOf(stack) ==
    IF stack = <<>> THEN {} ELSE {Head(stack)} \cup HandlesOf(Tail(stack))

NoArgs == [dst |-> "p1", src |-> "p1"]
NoRet == [op |-> "none", path |-> "p1", val |-> FALSE]

InitFS ==
    /\ fs \in [Paths -> Nodes]
    /\ fs0 = fs
    /\ pc = "idle"
    /\ args = NoArgs
    /\ open = {}
    /\ deferred = <<>>
    /\ err = Nil
    /\ ret = NoRet

\* The caller calls CopyFile(dst, src). The two are different paths and
\* neither names a device. Nothing of an earlier call is kept.
CopyFile_Call(d, s) ==
    /\ UNCHANGED notFS
    /\ pc \in {"idle", "done"}
    /\ d # s
    /\ fs[d].kind # "device" /\ fs[s].kind # "device"
    /\ args' = [dst |-> d, src |-> s]
    /\ fs0' = fs
    /\ open' = {}
    /\ deferred' = <<>>
    /\ err' = Nil
    /\ pc' = "open_src"
    /\ ret' = NoRet
    /\ UNCHANGED fs

\* The two opens in the other order: dst is opened (and created) first.
CopyFile_OpenSrc_dstFirst ==
    /\ UNCHANGED notFS
    /\ pc = "open_src"
    /\ LET e == OpenRead(fs[args.src])
           w == OpenWrite(fs[args.dst], OpenFlags) IN
        /\ fs' = [fs EXCEPT ![args.dst] = w.node]
        /\ IF e # Nil
           THEN /\ err' = e
                /\ pc' = "return"
                /\ UNCHANGED <<open, deferred>>
           ELSE /\ open' = open \cup {Handle(args.src, "r")}
                /\ deferred' = DeferClose(deferred, Handle(args.src, "r"))
                /\ pc' = "open_dst"
                /\ UNCHANGED err
    /\ UNCHANGED <<fs0, args, ret>>

\* from, err := os.Open(src); if err != nil { return err }; defer from.Close()
CopyFile_OpenSrc ==
    /\ UNCHANGED notFS
    /\ pc = "open_src"
    /\ LET e == OpenRead(fs[args.src]) IN
        IF e # Nil
        THEN /\ err' = e
             /\ pc' = "return"
             /\ UNCHANGED <<open, deferred>>
        ELSE /\ open' = open \cup {Handle(args.src, "r")}
             /\ deferred' = DeferClose(deferred, Handle(args.src, "r"))
             /\ pc' = "open_dst"
             /\ UNCHANGED err
    /\ UNCHANGED <<fs, fs0, args, ret>>

\* to, err := os.OpenFile(dst, os.O_CREATE|os.O_WRONLY, 0644)
\* if err != nil { return err }; defer to.Close()
CopyFile_OpenDst ==
    /\ UNCHANGED notFS
    /\ pc = "open_dst"
    /\ LET w == OpenWrite(fs[args.dst], OpenFlags) IN
        /\ fs' = [fs EXCEPT ![args.dst] = w.node]
        /\ IF w.err # Nil
           THEN /\ err' = w.err
                /\ pc' = "return"
                /\ UNCHANGED <<open, deferred>>
           ELSE /\ open' = open \cup {Handle(args.dst, "w")}
                /\ deferred' = DeferClose(deferred, Handle(args.dst, "w"))
                /\ pc' = "copy"
                /\ UNCHANGED err
    /\ UNCHANGED <<fs0, args, ret>>

\* _, err = io.Copy(to, from); if err != nil { return err }; return nil
\* io.Copy reads src to its end and writes what it reads to dst from offset
\* 0. Reading a directory fails at once. A read or write may fail part way
\* (an I/O error, a full disk): k bytes have then reached dst.
CopyFile_Copy ==
    /\ UNCHANGED notFS
    /\ pc = "copy"
    /\ LET from == fs[args.src]
           to == fs[args.dst] IN
        IF from.kind = "dir"
        THEN /\ err' = "EISDIR"
             /\ UNCHANGED fs
        ELSE \E k \in 0..Len(from.data) :
                /\ fs' = [fs EXCEPT ![args.dst] =
                            [to EXCEPT !.data = WriteAt(to.data, SubSeq(from.data, 1, k))]]
                /\ err' = IF k = Len(from.data) THEN Nil ELSE "EIO"
    /\ pc' = "return"
    /\ UNCHANGED <<fs0, args, open, deferred, ret>>

\* The function returns: its deferred calls run, newest first, each closing
\* its handle.
CopyFile_Return ==
    /\ UNCHANGED notFS
    /\ pc = "return"
    /\ open' = open \ HandlesOf(deferred)
    /\ deferred' = <<>>
    /\ pc' = "done"
    /\ UNCHANGED <<fs, fs0, args, err, ret>>

\* The caller calls FileExists(p).
CallFileExists(p) ==
    /\ UNCHANGED notFS
    /\ pc \in {"idle", "done"}
    /\ ret' = [op |-> "FileExists", path |-> p, val |-> FileExists(fs[p])]
    /\ UNCHANGED <<fs, fs0, pc, args, open, deferred, err>>

\* The caller calls DirExists(p).
CallDirExists(p) ==
    /\ UNCHANGED notFS
    /\ pc \in {"idle", "done"}
    /\ ret' = [op |-> "DirExists", path |-> p, val |-> DirExists(fs[p])]
    /\ UNCHANGED <<fs, fs0, pc, args, open, deferred, err>>

\* ====================================================================
\* ReadLines
\* ====================================================================
NL == "\n"
LineChars == {"a", "b", NL}

RLNodes ==
    {Absent(TRUE), Dir, Denied}
    \cup {Regular(d, r, TRUE) : d \in BoundedSeq(LineChars, MaxLineLen), r \in BOOLEAN}

\* ioutil.ReadFile(filename): the content and the error. A directory opens
\* but cannot be read.
ReadFile(node) ==
    LET e == OpenRead(node) IN
    IF e # Nil THEN [content |-> <<>>, err |-> e]
    ELSE IF node.kind = "dir" THEN [content |-> <<>>, err |-> "EISDIR"]
    ELSE [content |-> node.data, err |-> Nil]

\* strings.Split(s, "\n"): the substrings between the newlines, one more
\* than there are newlines.
RECURSIVE Split(_)
Split(s) ==
    IF s = <<>> THEN << <<>> >>
    ELSE IF Head(s) = NL THEN << <<>> >> \o Split(Tail(s))
    ELSE LET rest == Split(Tail(s)) IN
         << <<Head(s)>> \o Head(rest) >> \o Tail(rest)

\* The loop with the element appended taken at the write position rather
\* than at i.
RECURSIVE FilterLoop_wrongIndex(_, _, _)
FilterLoop_wrongIndex(arr, n, i) ==
    IF i > Len(arr) THEN SubSeq(arr, 1, n)
    ELSE IF arr[i] # <<>>
         THEN FilterLoop_wrongIndex([arr EXCEPT ![n + 1] = arr[n + 1]], n + 1, i + 1)
         ELSE FilterLoop_wrongIndex(arr, n, i + 1)

\* nonEmptyLines := lines[:0]
\* for i, line := range lines {
\*     if line != "" { nonEmptyLines = append(nonEmptyLines, lines[i:i+1]...) }
\* }
\* arr is the array both slices share, n is len(nonEmptyLines), i the
\* (1-based) index of the iteration. The append never reallocates (n < i <=
\* cap), so it stores arr[i] at position n + 1 of the shared array.
RECURSIVE FilterLoop(_, _, _)
FilterLoop(arr, n, i) ==
    IF i > Len(arr) THEN SubSeq(arr, 1, n)
    ELSE IF arr[i] # <<>>
         THEN FilterLoop([arr EXCEPT ![n + 1] = arr[i]], n + 1, i + 1)
         ELSE FilterLoop(arr, n, i + 1)

\* The read error dropped.
ReadLines_errSwallowed(node) ==
    LET f == ReadFile(node) IN
    [lines |-> FilterLoop(Split(f.content), 0, 1), err |-> Nil]

ReadLines(node) ==
    LET f == ReadFile(node) IN
    IF f.err # Nil THEN [lines |-> <<>>, err |-> f.err]
    ELSE [lines |-> FilterLoop(Split(f.content), 0, 1), err |-> Nil]

InitRL ==
    /\ rlFile \in RLNodes
    /\ rlPc = "start"
    /\ rlRet = [lines |-> <<>>, err |-> Nil]

\* The caller calls ReadLines on the path.
CallReadLines ==
    /\ UNCHANGED notRL
    /\ rlPc = "start"
    /\ rlRet' = ReadLines(rlFile)
    /\ rlPc' = "done"
    /\ UNCHANGED rlFile

\* ====================================================================
\* Command wrappers: Run, Output, CombinedOutput, parseEnv
\* ====================================================================
\* Strings are sequences of characters. One name is a prefix of the other.
EnvNames == {<<"A">>, <<"A", "B">>}
EnvValues == BoundedSeq({"x", "="}, MaxValLen)
\* What a name with no entry reads as: a value no entry can hold.
Unset == <<"unset">>

Entry(k, v) == k \o <<"=">> \o v

\* os.Environ() holds each name once.
Environs ==
    {<<>>}
    \cup {<<Entry(k, v)>> : k \in EnvNames, v \in EnvValues}
    \cup {<<Entry(k[1], v1), Entry(k[2], v2)>> :
            k \in {x \in EnvNames \X EnvNames : x[1] # x[2]},
            v1 \in EnvValues, v2 \in EnvValues}

\* The override maps: map[string]string, EmptyEnv among them.
EmptyEnv == <<>>
EnvMaps == UNION {[K -> EnvValues] : K \in SUBSET EnvNames}

\* The orders in which `range env` may visit the keys of env.
Orders(env) ==
    {o \in BoundedSeq(DOMAIN env, Cardinality(DOMAIN env)) :
        /\ Len(o) = Cardinality(DOMAIN env)
        /\ \A i, j \in 1..Len(o) : i # j => o[i] # o[j]}

\* The overrides put in front of the inherited entries.
parseEnv_prepend(env, order) ==
    [i \in 1..Len(order) |-> Entry(order[i], env[order[i]])] \o environ

\* newEnv := os.Environ()
\* for key, value := range env { newEnv = append(newEnv, key+"="+value) }
parseEnv(env, order) ==
    environ \o [i \in 1..Len(order) |-> Entry(order[i], env[order[i]])]

\* The position of the first "=" of an entry, 0 when it has none.
RECURSIVE IndexEq(_, _)
IndexEq(e, i) ==
    IF i > Len(e) THEN 0 ELSE IF e[i] = "=" THEN i ELSE IndexEq(e, i + 1)

EntryKey(e) == SubSeq(e, 1, IndexEq(e, 1) - 1)
EntryValue(e) == SubSeq(e, IndexEq(e, 1) + 1, Len(e))

\* What a child started with cmd.Env = envList reads for name: os/exec keeps,
\* of the entries with one key, the last.
RECURSIVE Getenv(_, _)
Getenv(envList, name) ==
    IF envList = <<>> THEN Unset
    ELSE LET e == envList[Len(envList)] IN
         IF IndexEq(e, 1) > 0 /\ EntryKey(e) = name THEN EntryValue(e)
         ELSE Getenv(SubSeq(envList, 1, Len(envList) - 1), name)

\* What the operating system makes of one execution: the child cannot be
\* started, or it runs, writes out to its standard output and then errOut to
\* its standard error, and exits with a status.
Children ==
    {[outcome |-> "startfail", out |-> <<>>, errOut |-> <<>>]}
    \cup {[outcome |-> o, out |-> out, errOut |-> e] :
            o \in {"exit0", "exit1"}, out \in {<<>>, <<"o">>}, e \in {<<>>, <<"e">>}}

\* A fresh *exec.Cmd, and what the model records of its execution: runs
\* counts the executions, childEnv is the environment the child read, toStdout
\* and toStderr are what the caller's sinks received and buffer what was
\* captured in memory.
NewCmd ==
    [Dir |-> "", Env |-> <<>>, Stdout |-> "nil", Stderr |-> "nil",
     runs |-> 0, childEnv |-> [n \in EnvNames |-> Unset],
     toStdout |-> <<>>, toStderr |-> <<>>, buffer |-> <<>>]

Sent(c, child, dest) ==
    (IF c.Stdout = dest THEN child.out ELSE <<>>)
    \o (IF c.Stderr = dest THEN child.errOut ELSE <<>>)

\* cmd.Run(): one execution; the error is nil only when the child started
\* and exited with status 0.
CmdRun(c, child) ==
    IF child.outcome = "startfail"
    THEN [cmd |-> [c EXCEPT !.runs = c.runs + 1], err |-> "start error"]
    ELSE [cmd |-> [c EXCEPT !.runs = c.runs + 1,
                            !.childEnv = [n \in EnvNames |-> Getenv(c.Env, n)],
                            !.toStdout = Sent(c, child, "out sink"),
                            !.toStderr = Sent(c, child, "err sink"),
                            !.buffer = Sent(c, child, "buffer")],
          err |-> IF child.outcome = "exit0" THEN Nil ELSE "exit status 1"]

\* cmd.Output(): standard output is captured in a buffer.
CmdOutput(c, child) ==
    LET r == CmdRun([c EXCEPT !.Stdout = "buffer"], child) IN
    [cmd |-> r.cmd, out |-> r.cmd.buffer, err |-> r.err]

\* cmd.CombinedOutput(): both streams are captured in one buffer.
CmdCombinedOutput(c, child) ==
    LET r == CmdRun([c EXCEPT !.Stdout = "buffer", !.Stderr = "buffer"], child) IN
    [cmd |-> r.cmd, out |-> r.cmd.buffer, err |-> r.err]

\* A second execution when the first fails.
Run_retry(c, workDir, env, order, child) ==
    LET c1 == [c EXCEPT !.Dir = workDir, !.Env = parseEnv(env, order),
                        !.Stdout = "out sink", !.Stderr = "err sink"]
        r == CmdRun(c1, child)
        r2 == IF r.err # Nil THEN CmdRun(r.cmd, child) ELSE r IN
    [cmd |-> r2.cmd, out |-> <<>>, err |-> r2.err]

Run(c, workDir, env, order, child) ==
    LET c1 == [c EXCEPT !.Dir = workDir, !.Env = parseEnv(env, order),
                        !.Stdout = "out sink", !.Stderr = "err sink"]
        r == CmdRun(c1, child) IN
    [cmd |-> r.cmd, out |-> <<>>, err |-> r.err]

\* The output dropped when the command fails.
Output_dropOnError(c, workDir, env, order, child) ==
    LET c1 == [c EXCEPT !.Dir = workDir, !.Env = parseEnv(env, order),
                        !.Stderr = "err sink"]
        r == CmdOutput(c1, child) IN
    [cmd |-> r.cmd, out |-> IF r.err # Nil THEN <<>> ELSE r.out, err |-> r.err]

Output(c, workDir, env, order, child) ==
    LET c1 == [c EXCEPT !.Dir = workDir, !.Env = parseEnv(env, order),
                        !.Stderr = "err sink"]
        r == CmdOutput(c1, child) IN
    [cmd |-> r.cmd, out |-> r.out, err |-> r.err]

CombinedOutput(c, workDir, env, order, child) ==
    LET c1 == [c EXCEPT !.Dir = workDir, !.Env = parseEnv(env, order)]
        r == CmdCombinedOutput(c1, child) IN
    [cmd |-> r.cmd, out |-> r.out, err |-> r.err]

WorkDir == "/work"

InitEx ==
    /\ environ \in Environs
    /\ exArgs = [op |-> "none", env |-> EmptyEnv, child |-> CHOOSE c \in Children : c.outcome = "startfail"]
    /\ cmd = NewCmd
    /\ exPc = "start"
    /\ exRet = [out |-> <<>>, err |-> Nil]

Returned(op, env, child, r) ==
    /\ UNCHANGED notEx
    /\ exArgs' = [op |-> op, env |-> env, child |-> child]
    /\ cmd' = r.cmd
    /\ exRet' = [out |-> r.out, err |-> r.err]
    /\ exPc' = "done"
    /\ UNCHANGED environ

\* The caller calls Run(cmd, workDir, env, stdout, stderr).
CallRun ==
    /\ exPc = "start"
    /\ \E env \in EnvMaps, child \in Children : \E order \in Orders(env) :
        Returned("Run", env, child, Run(cmd, WorkDir, env, order, child))

\* The caller calls Output(cmd, workDir, env, stderr).
CallOutput ==
    /\ exPc = "start"
    /\ \E env \in EnvMaps, child \in Children : \E order \in Orders(env) :
        Returned("Output", env, child, Output(cmd, WorkDir, env, order, child))

\* The caller calls CombinedOutput(cmd, workDir, env).
CallCombinedOutput ==
    /\ exPc = "start"
    /\ \E env \in EnvMaps, child \in Children : \E order \in Orders(env) :
        Returned("CombinedOutput", env, child, CombinedOutput(cmd, WorkDir, env, order, child))

\* ====================================================================
\* Error helpers: Panic, NoError
\* ====================================================================
DefaultMsg == "Something bad happended"
Errs == {Nil, "e1", "e2"}
Msgs == {"", "m1"}

\* An entry the logrus entry writes: log.WithError(err).<Level>(msg)
LogEntry(level, e, m) == [level |-> level, err |-> e, msg |-> m]

\* The message used as given, not defaulted.
Panic_noDefault(e, m, lg) ==
    IF e # Nil
    THEN [log |-> Append(lg, LogEntry("panic", e, m)), panics |-> TRUE]
    ELSE [log |-> lg, panics |-> FALSE]

\* The entry logged at error level: it is written and the call returns.
Panic_logsError(e, m, lg) ==
    LET msg == IF m = "" THEN DefaultMsg ELSE m IN
    IF e # Nil
    THEN [log |-> Append(lg, LogEntry("error", e, msg)), panics |-> FALSE]
    ELSE [log |-> lg, panics |-> FALSE]

\* if msg == "" { msg = "Something bad happended" }
\* if err != nil { log.WithError(err).Panic(msg) }
\* Entry.Panic writes the entry at panic level and then panics.
Panic(e, m, lg) ==
    LET msg == IF m = "" THEN DefaultMsg ELSE m IN
    IF e # Nil
    THEN [log |-> Append(lg, LogEntry("panic", e, msg)), panics |-> TRUE]
    ELSE [log |-> lg, panics |-> FALSE]

\* The test of err inverted.
NoError_inverted(e, m, lg) ==
    LET msg == IF m = "" THEN DefaultMsg ELSE m IN
    IF e = Nil
    THEN [log |-> Append(lg, LogEntry("error", e, msg)), ret |-> "false"]
    ELSE [log |-> lg, ret |-> "true"]

\* if msg == "" { msg = "Something bad happended" }
\* if err != nil { log.WithError(err).Error(msg); return false }
\* return true
NoError(e, m, lg) ==
    LET msg == IF m = "" THEN DefaultMsg ELSE m IN
    IF e # Nil
    THEN [log |-> Append(lg, LogEntry("error", e, msg)), ret |-> "false"]
    ELSE [log |-> lg, ret |-> "true"]

InitEr ==
    /\ log = <<>>
    /\ erPc = "ready"
    /\ erArgs = [fn |-> "none", err |-> Nil, msg |-> "", log0 |-> <<>>]
    /\ erRet = "none"
    /\ after = FALSE

\* The caller calls Panic(err, log, msg).
CallPanic(e, m) ==
    /\ UNCHANGED notEr
    /\ erPc = "ready"
    /\ Len(log) < MaxLog
    /\ LET r == Panic(e, m, log) IN
        /\ log' = r.log
        /\ erPc' = IF r.panics THEN "panicking" ELSE "returned"
    /\ erArgs' = [fn |-> "Panic", err |-> e, msg |-> m, log0 |-> log]
    /\ erRet' = "none"
    /\ after' = FALSE

\* The caller calls NoError(err, log, msg).
CallNoError(e, m) ==
    /\ UNCHANGED notEr
    /\ erPc = "ready"
    /\ Len(log) < MaxLog
    /\ LET r == NoError(e, m, log) IN
        /\ log' = r.log
        /\ erRet' = r.ret
    /\ erPc' = "returned"
    /\ erArgs' = [fn |-> "NoError", err |-> e, msg |-> m, log0 |-> log]
    /\ after' = FALSE

\* The helper returned: the caller runs its next statement.
CallerContinues ==
    /\ UNCHANGED notEr
    /\ erPc = "returned"
    /\ after' = TRUE
    /\ erPc' = "ready"
    /\ UNCHANGED <<log, erArgs, erRet>>

\* The panic unwinds the stack and no frame recovers it: the process dies.
PanicCrashes ==
    /\ UNCHANGED notEr
    /\ erPc = "panicking"
    /\ erPc' = "crashed"
    /\ UNCHANGED <<log, erArgs, erRet, after>>

\* The panic unwinds the stack to a frame whose deferred function calls
\* recover(): the caller's frame is gone and that frame's caller goes on.
PanicRecovered ==
    /\ UNCHANGED notEr
    /\ erPc = "panicking"
    /\ erPc' = "ready"
    /\ UNCHANGED <<log, erArgs, erRet, after>>

\* ====================================================================
\* Specifications
\* ====================================================================
IdleFS ==
    /\ fs = [p \in Paths |-> Absent(TRUE)]
    /\ fs0 = fs
    /\ pc = "idle"
    /\ args = NoArgs
    /\ open = {}
    /\ deferred = <<>>
    /\ err = Nil
    /\ ret = NoRet

IdleRL ==
    /\ rlFile = Absent(TRUE)
    /\ rlPc = "start"
    /\ rlRet = [lines |-> <<>>, err |-> Nil]

IdleEx ==
    /\ environ = <<>>
    /\ exArgs = [op |-> "none", env |-> EmptyEnv, child |-> CHOOSE c \in Children : c.outcome = "startfail"]
    /\ cmd = NewCmd
    /\ exPc = "start"
    /\ exRet = [out |-> <<>>, err |-> Nil]

Init == InitFS /\ IdleRL /\ IdleEx /\ InitEr

Next ==
    \/ \E d \in Paths, s \in Paths : CopyFile_Call(d, s)
    \/ CopyFile_OpenSrc
    \/ CopyFile_OpenDst
    \/ CopyFile_Copy
    \/ CopyFile_Return
    \/ \E p \in Paths : CallFileExists(p)
    \/ \E p \in Paths : CallDirExists(p)

Spec == Init /\ [][Next]_vars

InitReadLines == IdleFS /\ InitRL /\ IdleEx /\ InitEr

NextReadLines == CallReadLines

SpecReadLines == InitReadLines /\ [][NextReadLines]_vars

InitExec == IdleFS /\ IdleRL /\ InitEx /\ InitEr

NextExec ==
    \/ CallRun
    \/ CallOutput
    \/ CallCombinedOutput

SpecExec == InitExec /\ [][NextExec]_vars

InitErr == IdleFS /\ IdleRL /\ IdleEx /\ InitEr

NextErr ==
    \/ \E e \in Errs, m \in Msgs : CallPanic(e, m)
    \/ \E e \in Errs, m \in Msgs : CallNoError(e, m)
    \/ CallerContinues
    \/ PanicCrashes
    \/ PanicRecovered

SpecErr == InitErr /\ [][NextErr]_vars

\* ====================================================================
\* Properties
\* ====================================================================

\* C1: after CopyFile(dst, src) returns without error, dst is a regular file
\* whose content is exactly the content src had, whatever dst was before
\* (absent, shorter, of the same length or longer).
C1_DstEqualsSrc ==
    (pc = "done" /\ err = Nil) =>
        /\ fs[args.dst].kind = "regular"
        /\ fs[args.dst].data = fs0[args.src].data

\* C2: when CopyFile has returned, on whatever path, no handle it opened is
\* still open.
C2_HandlesClosed ==
    pc = "done" => open = {}

\* A return after the copy failed, with src and dst both opened before.
C2_Witness ==
    /\ pc = "done"
    /\ err = "EIO"
    /\ open = {}

\* C10: when src cannot be opened, CopyFile returns that error and the
\* filesystem is as it was (dst not created, dst's content unchanged); and
\* through every call, whatever its outcome, src is unchanged.
C10_SrcFailureLeavesFs ==
    /\ pc # "idle" => fs[args.src] = fs0[args.src]
    /\ (pc = "done" /\ OpenRead(fs0[args.src]) # Nil) =>
            /\ err = OpenRead(fs0[args.src])
            /\ fs = fs0

\* src missing and dst absent where it could have been created.
C10_Witness ==
    /\ pc = "done"
    /\ fs0[args.src].kind = "absent"
    /\ fs0[args.dst] = Absent(TRUE)
    /\ err = "ENOENT"
    /\ fs[args.dst] = Absent(TRUE)

\* What FileExists and DirExists may say of a path, given the kinds of node
\* FileExists takes for a file.
ExistsClaim(fileKinds) ==
    ret.op # "none" =>
        LET node == fs[ret.path] IN
        /\ (ret.op = "FileExists" /\ ret.val) => node.kind \in fileKinds
        /\ (ret.op = "DirExists" /\ ret.val) => node.kind = "dir"
        /\ node.kind \in {"absent", "denied"} => ~ret.val
        /\ (ret.op = "FileExists" /\ node.kind = "dir") => ~ret.val
        /\ (ret.op = "DirExists" /\ node.kind = "regular") => ~ret.val
        /\ ~(FileExists(node) /\ DirExists(node))

\* C5: FileExists(P) is true only if P exists and is a regular file,
\* DirExists(P) only if P exists and is a directory; a stat error makes both
\* false; FileExists of a directory and DirExists of a file are false; the
\* two are never both true of one path.
C5_RegularFileOnly == ExistsClaim({"regular"})

\* C5 as amended: FileExists(P) is true only if P exists and is not a
\* directory (a regular file, or a device, FIFO or socket); the rest as
\* stated.
C5_NotADirectory == ExistsClaim({"regular", "device"})

\* FileExists has answered true for a path that names a device.
C5_Witness ==
    /\ ret.op = "FileExists"
    /\ ret.val
    /\ fs[ret.path].kind = "device"

\* The positions of s where a non-empty segment starts: a character that is
\* no newline, first of s or right after a newline.
SegStarts(s) ==
    {i \in 1..Len(s) : s[i] # NL /\ (i = 1 \/ s[i - 1] = NL)}

\* The segment starting at i: up to the last position before the next
\* newline.
SegAt(s, i) ==
    LET ends == {j \in i..Len(s) :
                    /\ \A k \in i..j : s[k] # NL
                    /\ (j = Len(s) \/ s[j + 1] = NL)} IN
    SubSeq(s, i, CHOOSE j \in ends : TRUE)

\* The k-th smallest element of a set of numbers.
Kth(S, k) == CHOOSE x \in S : Cardinality({y \in S : y < x}) = k - 1

\* C3: for a readable file, ReadLines returns exactly the non-empty segments
\* between the newlines of the content, in their order and with their text;
\* "a\n\nb\n" gives ["a", "b"].
C3_NonEmptySegmentsInOrder ==
    (rlPc = "done" /\ rlRet.err = Nil) =>
        LET s == rlFile.data
            starts == SegStarts(s) IN
        /\ Len(rlRet.lines) = Cardinality(starts)
        /\ \A k \in 1..Len(rlRet.lines) : rlRet.lines[k] = SegAt(s, Kth(starts, k))
        /\ s = <<"a", NL, NL, "b", NL>> => rlRet.lines = << <<"a">>, <<"b">> >>

\* ReadLines has returned for the content "a\n\nb\n".
C3_Witness ==
    /\ rlPc = "done"
    /\ rlFile.data = <<"a", NL, NL, "b", NL>>
    /\ rlRet = [lines |-> << <<"a">>, <<"b">> >>, err |-> Nil]

\* C4: ReadLines of a file that cannot be read (nonexistent, say) returns an
\* error; ReadLines of a file that exists and is empty or holds only blank
\* lines returns an empty sequence and no error.
C4_ErrorOrEmpty ==
    rlPc = "done" =>
        /\ (rlFile.kind # "regular" \/ ~rlFile.r) => rlRet.err # Nil
        /\ (rlFile.kind = "regular" /\ rlFile.r
                /\ \A i \in 1..Len(rlFile.data) : rlFile.data[i] = NL) =>
            rlRet = [lines |-> <<>>, err |-> Nil]

\* ReadLines has returned for a path that does not exist.
C4_Witness ==
    /\ rlPc = "done"
    /\ rlFile.kind = "absent"
    /\ rlRet.err = "ENOENT"

\* The value the process itself has for name: that of the one entry
\* name=value of os.Environ().
Inherited(name) ==
    LET vs == {v \in EnvValues : \E i \in 1..Len(environ) : environ[i] = Entry(name, v)} IN
    IF vs = {} THEN Unset ELSE CHOOSE v \in vs : TRUE

\* C6: the child of Run, Output and CombinedOutput sees the inherited
\* environment with every override applied: an override of a name not
\* inherited adds it, an override of an inherited name replaces its value,
\* a name not overridden keeps its value, and an empty override map leaves
\* the inherited environment as it is.
C6_ChildSeesMergedEnv ==
    (exPc = "done" /\ exArgs.child.outcome # "startfail") =>
        /\ \A n \in EnvNames :
            cmd.childEnv[n] =
                IF n \in DOMAIN exArgs.env THEN exArgs.env[n] ELSE Inherited(n)
        /\ exArgs.env = EmptyEnv => cmd.Env = environ

\* The child sees the override of a name inherited with another value.
C6_Witness ==
    /\ exPc = "done"
    /\ exArgs.child.outcome # "startfail"
    /\ \E n \in DOMAIN exArgs.env :
        /\ Inherited(n) \notin {Unset, exArgs.env[n]}
        /\ cmd.childEnv[n] = exArgs.env[n]

MsgOrDefault(m) == IF m = "" THEN DefaultMsg ELSE m

\* What a call of Panic does, given the level it logs at and whether the
\* control flow it ends may be taken up again.
PanicClaim(level, recoverable) ==
    erArgs.fn = "Panic" =>
        IF erArgs.err # Nil
        THEN /\ log = Append(erArgs.log0,
                        LogEntry(level, erArgs.err, MsgOrDefault(erArgs.msg)))
             /\ erPc # "returned"
             /\ after = FALSE
             /\ ~recoverable => erPc \in {"panicking", "crashed"}
        ELSE /\ log = erArgs.log0
             /\ erPc \in {"returned", "ready"}

\* C8: Panic with a non-nil err logs one entry at fatal severity with the
\* error and the message (the default message for an empty one) and ends the
\* control flow for good, no statement after the call running; with a nil
\* err it logs nothing and returns.
C8_FatalUnrecoverable == PanicClaim("fatal", FALSE)

\* C8 as amended: the entry is logged at panic severity and the call then
\* panics: no statement after the call runs, the stack unwinds, and a
\* deferred recover() further up may take the control flow up again.
C8_PanicLevelUnwinds == PanicClaim("panic", TRUE)

\* Panic was called with an error and an empty message; the process died.
C8_Witness ==
    /\ erArgs.fn = "Panic"
    /\ erArgs.err # Nil
    /\ erArgs.msg = ""
    /\ erPc = "crashed"
    /\ log[Len(log)].msg = DefaultMsg

\* C9: NoError returns true exactly when err is nil; with a nil err it logs
\* nothing; with a non-nil err it logs one entry at error severity with the
\* message and the error, returns false, and the caller goes on.
C9_NoErrorReports ==
    erArgs.fn = "NoError" =>
        /\ erRet = "true" <=> erArgs.err = Nil
        /\ erRet \in {"true", "false"}
        /\ erArgs.err = Nil => log = erArgs.log0
        /\ erArgs.err # Nil =>
            log = Append(erArgs.log0,
                    LogEntry("error", erArgs.err, MsgOrDefault(erArgs.msg)))
        /\ erPc \in {"returned", "ready"}

\* NoError has logged an error and returned false, and the caller went on.
C9_Witness ==
    /\ erArgs.fn = "NoError"
    /\ erArgs.err # Nil
    /\ erRet = "false"
    /\ Len(log) = Len(erArgs.log0) + 1
    /\ after = TRUE

====
